---- MODULE Spec2Model ----
(***************************************************************************)
(* Model of asn_lookup.py: the input resolver get_ip_from_input, the       *)
(* registry client asn_lookup and the command-line script that chains      *)
(* them.  Strings are sequences of one-character strings.  The DNS and     *)
(* registry collaborators are the environment: their replies are chosen    *)
(* nondeterministically from small sets.                                   *)
(***************************************************************************)
EXTENDS Integers, Sequences, FiniteSets, TLC

\* ------------------------------------------------------------------ bounds
MaxParts == 4
MaxCalls == 2
MaxEvents == 2

\* --------------------------------------------------------- Python values
None == <<"None">>
Unbound == <<"unbound">>
NoExc == "none"

\* Python's exception hierarchy, as far as the except clauses can tell.
\* socket.error is an alias of OSError.
ExcParent ==
  [ gaierror        |-> "OSError",
    OSError         |-> "Exception",
    UnicodeError    |-> "ValueError",
    ValueError      |-> "Exception",
    IPDefinedError  |-> "Exception",
    HTTPLookupError |-> "Exception",
    Exception       |-> "BaseException" ]

RECURSIVE IsInstance(_, _)
IsInstance(exc, cls) ==
  IF exc = cls THEN TRUE
  ELSE IF exc \in DOMAIN ExcParent THEN IsInstance(ExcParent[exc], cls)
  ELSE FALSE

\* ------------------------------------------------------------- characters
Digits == <<"0", "1", "2", "3", "4", "5", "6", "7", "8", "9">>

IsDigit(c) == \E i \in 1..10 : Digits[i] = c

DigitVal(c) == (CHOOSE i \in 1..10 : Digits[i] = c) - 1

IsSpace(c) == c = " "

RECURSIVE Pow(_, _)
Pow(b, n) == IF n = 0 THEN 1 ELSE b * Pow(b, n - 1)

\* End of the decimal digit run of s that starts at position i (strtoul).
RECURSIVE DigitRunEnd(_, _)
DigitRunEnd(s, i) ==
  IF i <= Len(s) /\ IsDigit(s[i]) THEN DigitRunEnd(s, i + 1) ELSE i

RECURSIVE DecVal(_, _, _)
DecVal(s, i, j) ==
  IF j <= i THEN 0 ELSE DecVal(s, i, j - 1) * 10 + DigitVal(s[j - 1])

\* inet_aton(3): up to four numbers separated by dots, the last one
\* filling the remaining bytes; parsing stops at whitespace.  The value
\* is the four bytes of the address, or <<>> when the string is rejected.
\* (The inputs hold decimal runs of at most three digits: strtoul's other
\* bases and its range check never apply.)
RECURSIVE AtonVal(_, _, _, _)
AtonVal(s, i, pp, acc) ==
  IF i > Len(s) \/ ~IsDigit(s[i]) THEN <<>>
  ELSE LET j   == DigitRunEnd(s, i)
           val == DecVal(s, i, j)
       IN IF j <= Len(s) /\ s[j] = "."
          THEN IF pp > 2 \/ val > 255 THEN <<>>
               ELSE AtonVal(s, j + 1, pp + 1, Append(acc, val))
          ELSE IF j <= Len(s) /\ ~IsSpace(s[j]) THEN <<>>
               ELSE IF val \div Pow(256, 3 - pp) > 255 THEN <<>>
                    ELSE acc \o [k \in 1..(4 - pp) |->
                                   (val \div Pow(256, 4 - pp - k)) % 256]

\* socket.inet_aton(user_input): the exception it raises, if any.
inet_aton(s) == IF AtonVal(s, 1, 0, <<>>) # <<>> THEN NoExc ELSE "OSError"

\* The idna codec that socket.gethostbyname applies to its argument: every
\* label but the last is non-empty and shorter than 64, the last shorter
\* than 64.
RECURSIVE LabelEnd(_, _)
LabelEnd(s, i) ==
  IF i <= Len(s) /\ s[i] # "." THEN LabelEnd(s, i + 1) ELSE i

RECURSIVE IdnaOk(_, _)
IdnaOk(s, i) ==
  LET j == LabelEnd(s, i)
  IN IF j > Len(s) THEN j - i < 64
     ELSE j - i > 0 /\ j - i < 64 /\ IdnaOk(s, j + 1)

\* socket.gethostbyname(user_input) given the resolver's reply.
gethostbyname(s, reply) ==
  IF ~IdnaOk(s, 1) THEN [raised |-> "UnicodeError", val |-> None]
  ELSE IF reply.kind = "addr" THEN [raised |-> NoExc, val |-> reply.addr]
  ELSE [raised |-> "gaierror", val |-> None]

InvalidInputMsg ==
  <<"Invalid input: neither a valid IP address nor a resolvable domain.">>

\* Variants of get_ip_from_input with one slip each.
\* The literal check is skipped: every input goes to DNS.
get_ip_from_input_dns_always(s, reply) ==
  LET g == gethostbyname(s, reply)
  IN IF g.raised = NoExc
     THEN [ip |-> g.val, dom |-> "True", raised |-> NoExc,
           out |-> <<>>, dnsLog |-> <<s>>]
     ELSE IF IsInstance(g.raised, "gaierror")
     THEN [ip |-> None, dom |-> "None", raised |-> NoExc,
           out |-> <<InvalidInputMsg>>, dnsLog |-> <<s>>]
     ELSE [ip |-> Unbound, dom |-> "unbound", raised |-> g.raised,
           out |-> <<>>, dnsLog |-> <<s>>]

\* The DNS path returns the name instead of the address it resolved to.
get_ip_from_input_keeps_name(s, reply) ==
  LET e == inet_aton(s)
  IN IF e = NoExc
     THEN [ip |-> s, dom |-> "False", raised |-> NoExc,
           out |-> <<>>, dnsLog |-> <<>>]
     ELSE LET g == gethostbyname(s, reply)
          IN IF g.raised = NoExc
             THEN [ip |-> s, dom |-> "True", raised |-> NoExc,
                   out |-> <<>>, dnsLog |-> <<s>>]
             ELSE IF IsInstance(g.raised, "gaierror")
             THEN [ip |-> None, dom |-> "None", raised |-> NoExc,
                   out |-> <<InvalidInputMsg>>, dnsLog |-> <<s>>]
             ELSE [ip |-> Unbound, dom |-> "unbound", raised |-> g.raised,
                   out |-> <<>>, dnsLog |-> <<s>>]

\* A failed resolution is tried a second time.
get_ip_from_input_retries(s, reply) ==
  LET e == inet_aton(s)
  IN IF e = NoExc
     THEN [ip |-> s, dom |-> "False", raised |-> NoExc,
           out |-> <<>>, dnsLog |-> <<>>]
     ELSE LET g == gethostbyname(s, reply)
          IN IF g.raised = NoExc
             THEN [ip |-> g.val, dom |-> "True", raised |-> NoExc,
                   out |-> <<>>, dnsLog |-> <<s>>]
             ELSE IF IsInstance(g.raised, "gaierror")
             THEN [ip |-> None, dom |-> "None", raised |-> NoExc,
                   out |-> <<InvalidInputMsg>>, dnsLog |-> <<s, s>>]
             ELSE [ip |-> Unbound, dom |-> "unbound", raised |-> g.raised,
                   out |-> <<>>, dnsLog |-> <<s>>]

\* get_ip_from_input(user_input): the returned pair, the exception that
\* leaves the function, the lines printed and the arguments of the DNS
\* calls made.
get_ip_from_input(s, reply) ==
  LET e == inet_aton(s)
  IN IF e = NoExc
     THEN [ip |-> s, dom |-> "False", raised |-> NoExc,
           out |-> <<>>, dnsLog |-> <<>>]
     ELSE IF ~IsInstance(e, "OSError")
     THEN [ip |-> Unbound, dom |-> "unbound", raised |-> e,
           out |-> <<>>, dnsLog |-> <<>>]
     ELSE LET g == gethostbyname(s, reply)
          IN IF g.raised = NoExc
             THEN [ip |-> g.val, dom |-> "True", raised |-> NoExc,
                   out |-> <<>>, dnsLog |-> <<s>>]
             ELSE IF IsInstance(g.raised, "gaierror")
             THEN [ip |-> None, dom |-> "None", raised |-> NoExc,
                   out |-> <<InvalidInputMsg>>, dnsLog |-> <<s>>]
             ELSE [ip |-> Unbound, dom |-> "unbound", raised |-> g.raised,
                   out |-> <<>>, dnsLog |-> <<s>>]

\* ------------------------------------------------------------ environment
\* Decimal text of a natural number, and inet_ntoa of a four-byte address.
RECURSIVE ToStr(_)
ToStr(n) == IF n < 10 THEN <<Digits[n + 1]>>
            ELSE ToStr(n \div 10) \o <<Digits[(n % 10) + 1]>>

inet_ntoa(v) ==
  ToStr(v[1]) \o <<".">> \o ToStr(v[2]) \o <<".">> \o ToStr(v[3])
    \o <<".">> \o ToStr(v[4])

RECURSIVE Join(_)
Join(parts) ==
  IF Len(parts) = 0 THEN <<>>
  ELSE IF Len(parts) = 1 THEN parts[1]
  ELSE parts[1] \o <<".">> \o Join(Tail(parts))

\* The labels inputs are built from: numbers inside and outside a byte, a
\* name, and the empty label.
Parts == { <<"7">>, <<"2", "5", "5">>, <<"2", "5", "6">>, <<"a">>, <<>> }

Suffixes == { <<>>, <<" ">> }

\* An IPv6 literal.
ExtraInputs == { <<":", ":", "7">> }

Inputs ==
  ({ Join(p) \o x : p \in UNION { [1..n -> Parts] : n \in 1..MaxParts },
                    x \in Suffixes } \ { <<>> })
    \cup ExtraInputs

\* The inputs of the script's runs: one of each class.
SampleInputs ==
  { Join(<<<<"7">>, <<"7">>, <<"7">>, <<"2", "5", "5">>>>),
    Join(<<<<"7">>, <<"7">>>>),
    Join(<<<<"7">>, <<"7">>, <<"7">>, <<"7">>>>) \o <<" ">>,
    Join(<<<<"a">>, <<"a">>>>),
    Join(<<<<"a">>, <<>>, <<"a">>>>),
    Join(<<<<"2", "5", "6">>, <<"7">>, <<"7">>, <<"7">>>>),
    <<":", ":", "7">> }

\* The addresses the resolver may return for a name.
DnsAddrs == { inet_ntoa(<<7, 7, 7, 7>>), inet_ntoa(<<255, 7, 0, 7>>) }

\* A string the resolver itself reads as a numeric address
\* (getaddrinfo takes no trailing characters).
ExactNumeric(s) ==
  AtonVal(s, 1, 0, <<>>) # <<>> /\ \A i \in 1..Len(s) : ~IsSpace(s[i])

\* What the DNS collaborator answers for s: a numeric address is returned
\* as such, a name the codec rejects never reaches it, an IPv6 literal has
\* no IPv4 address, any other name resolves to some address or fails.
DnsReplies(s) ==
  IF ~IdnaOk(s, 1) THEN { [kind |-> "unasked", addr |-> None] }
  ELSE IF ExactNumeric(s)
       THEN { [kind |-> "addr", addr |-> inet_ntoa(AtonVal(s, 1, 0, <<>>))] }
  ELSE IF \E i \in 1..Len(s) : s[i] = ":"
       THEN { [kind |-> "gaierror", addr |-> None] }
       ELSE { [kind |-> "addr", addr |-> a] : a \in DnsAddrs }
              \cup { [kind |-> "gaierror", addr |-> None] }

VARIABLES pc, callNo, user_input, dns, ip_address, is_domain, raised, out,
          dnsLog, registry, rdapLog, asn_info

vars == <<pc, callNo, user_input, dns, ip_address, is_domain, raised, out,
          dnsLog, registry, rdapLog, asn_info>>

NoReply == [kind |-> "none"]
NoInfo == [tag |-> "unbound"]
NoneInfo == [tag |-> "None"]

\* --------------------------------------------- the resolver as a library
InitLib ==
  /\ pc = "lib"
  /\ callNo = 0
  /\ user_input \in Inputs
  /\ dns \in DnsReplies(user_input)
  /\ ip_address = Unbound
  /\ is_domain = "unbound"
  /\ raised = NoExc
  /\ out = <<>>
  /\ dnsLog = <<>>
  /\ registry = NoReply
  /\ rdapLog = <<>>
  /\ asn_info = NoInfo

\* One more call of get_ip_from_input on the same input.
LibCall ==
  /\ pc = "lib"
  /\ callNo < MaxCalls
  /\ LET r == get_ip_from_input(user_input, dns)
     IN /\ ip_address' = r.ip
        /\ is_domain' = r.dom
        /\ raised' = r.raised
        /\ out' = r.out
        /\ dnsLog' = dnsLog \o r.dnsLog
  /\ callNo' = callNo + 1
  /\ UNCHANGED <<pc, user_input, dns, registry, rdapLog, asn_info>>

NextLib == LibCall

SpecLib == InitLib /\ [][NextLib]_vars

\* ------------------------------------------------- the registry collaborator
\* dict.get(key, default)
Get(d, k, default) == IF k \in DOMAIN d THEN d[k] ELSE default

EmptyDict == <<>>

AsnRecord ==
  [ asn              |-> "15169",
    asn_cidr         |-> "8.8.8.0/24",
    asn_country_code |-> "US",
    asn_registry     |-> "arin",
    asn_description  |-> "GOOGLE, US",
    asn_date         |-> "1992-12-01" ]

NetKeys ==
  { "name", "start_address", "end_address", "country", "type", "description" }

\* A network sub-record: any subset of the subfields present.
Networks == UNION { [K -> {"NET"}] : K \in SUBSET NetKeys }

Events ==
  { [event_action |-> "last changed", event_date |-> "2020-01-01"],
    [event_action |-> "registration", event_date |-> "2015-05-05"],
    [event_action |-> "transfer"] }

EventLists == UNION { [1..n -> Events] : n \in 0..MaxEvents }

\* A successful response: the ASN fields, an optional network sub-record
\* and an optional event list.
Responses ==
  { AsnRecord @@ n @@ e :
      n \in { EmptyDict } \cup { "network" :> x : x \in Networks },
      e \in { EmptyDict } \cup { "events" :> x : x \in EventLists } }

RegistryErrors ==
  { [exc |-> "IPDefinedError", msg |-> "address is already defined"],
    [exc |-> "HTTPLookupError", msg |-> "HTTP lookup failed"],
    [exc |-> "ValueError", msg |-> "not a valid address"],
    [exc |-> "Exception", msg |-> "registry timeout"] }

RegistryReplies ==
  { [kind |-> "ok", exc |-> NoExc, msg |-> "", res |-> r] : r \in Responses }
    \cup { [kind |-> "raise", exc |-> x.exc, msg |-> x.msg, res |-> EmptyDict] :
             x \in RegistryErrors }

\* Variants of asn_lookup with one slip each.
\* The catch-all clause names OSError instead of Exception.
asn_lookup_narrow_catch(ip, reply) ==
  IF reply.kind = "ok"
  THEN [ret |-> reply.res, raised |-> NoExc, out |-> <<>>, rdapLog |-> <<ip>>]
  ELSE IF IsInstance(reply.exc, "IPDefinedError")
  THEN [ret |-> NoneInfo, raised |-> NoExc,
        out |-> << <<"Error: ", reply.msg>> >>, rdapLog |-> <<ip>>]
  ELSE IF IsInstance(reply.exc, "OSError")
  THEN [ret |-> NoneInfo, raised |-> NoExc,
        out |-> << <<"ASN lookup failed: ", reply.msg>> >>, rdapLog |-> <<ip>>]
  ELSE [ret |-> NoInfo, raised |-> reply.exc, out |-> <<>>, rdapLog |-> <<ip>>]

\* The clause for IPDefinedError is missing.
asn_lookup_no_reserved_clause(ip, reply) ==
  IF reply.kind = "ok"
  THEN [ret |-> reply.res, raised |-> NoExc, out |-> <<>>, rdapLog |-> <<ip>>]
  ELSE IF IsInstance(reply.exc, "Exception")
  THEN [ret |-> NoneInfo, raised |-> NoExc,
        out |-> << <<"ASN lookup failed: ", reply.msg>> >>, rdapLog |-> <<ip>>]
  ELSE [ret |-> NoInfo, raised |-> reply.exc, out |-> <<>>, rdapLog |-> <<ip>>]

\* asn_lookup(ip): the value returned, the exception that leaves the
\* function, the lines printed and the arguments of the registry queries.
asn_lookup(ip, reply) ==
  IF reply.kind = "ok"
  THEN [ret |-> reply.res, raised |-> NoExc, out |-> <<>>, rdapLog |-> <<ip>>]
  ELSE IF IsInstance(reply.exc, "IPDefinedError")
  THEN [ret |-> NoneInfo, raised |-> NoExc,
        out |-> << <<"Error: ", reply.msg>> >>, rdapLog |-> <<ip>>]
  ELSE IF IsInstance(reply.exc, "Exception")
  THEN [ret |-> NoneInfo, raised |-> NoExc,
        out |-> << <<"ASN lookup failed: ", reply.msg>> >>, rdapLog |-> <<ip>>]
  ELSE [ret |-> NoInfo, raised |-> reply.exc, out |-> <<>>, rdapLog |-> <<ip>>]

\* ------------------------------------------------------------- the script
\* Variant of the script's test of ip_address: the test is missing.
StrTruthy_unchecked(v) == TRUE

\* if ip_address:
StrTruthy(v) == v # None /\ v # <<>>

\* if asn_info: / if network_info:
DictTruthy(d) == d # NoneInfo /\ DOMAIN d # {}

\* if events:
ListTruthy(l) == l # <<>>

ResolvedLines(input, ip) ==
  << <<"">>, <<"IP address for ", input, " is ", ip>>, <<"">> >>

AsnLines(info, ip) ==
  << <<"ASN Information for ", ip, ":">>,
     <<"">>,
     <<"ASN: ", info["asn"]>>,
     <<"ASN CIDR: ", info["asn_cidr"]>>,
     <<"ASN Country Code: ", info["asn_country_code"]>>,
     <<"ASN Registry: ", info["asn_registry"]>>,
     <<"ASN Description: ", info["asn_description"]>>,
     <<"ASN Allocation Date: ", info["asn_date"]>> >>

\* Variant of the network section: printed whether or not the response
\* has a network sub-record.
NetworkLines_unguarded(info) ==
  LET network_info == Get(info, "network", EmptyDict)
  IN << <<"\nNetwork Details:">>,
        <<"Network Name: ", Get(network_info, "name", "N/A")>>,
        <<"Network Start IP: ", Get(network_info, "start_address", "N/A")>>,
        <<"Network End IP: ", Get(network_info, "end_address", "N/A")>>,
        <<"Network Country: ", Get(network_info, "country", "N/A")>>,
        <<"Network Type: ", Get(network_info, "type", "N/A")>>,
        <<"Network Description: ", Get(network_info, "description", "N/A")>> >>

NetworkLines(info) ==
  LET network_info == Get(info, "network", EmptyDict)
  IN IF DictTruthy(network_info)
     THEN << <<"\nNetwork Details:">>,
             <<"Network Name: ", Get(network_info, "name", "N/A")>>,
             <<"Network Start IP: ", Get(network_info, "start_address", "N/A")>>,
             <<"Network End IP: ", Get(network_info, "end_address", "N/A")>>,
             <<"Network Country: ", Get(network_info, "country", "N/A")>>,
             <<"Network Type: ", Get(network_info, "type", "N/A")>>,
             <<"Network Description: ",
               Get(network_info, "description", "N/A")>> >>
     ELSE <<>>

\* Variant of the event section: newest-first, the list reversed.
EventLines_reversed(info) ==
  LET events == Get(info, "events", <<>>)
  IN IF ListTruthy(events)
     THEN << <<"\nEvent History:">> >>
          \o [i \in 1..Len(events) |->
                <<"Event: ", Get(events[Len(events) + 1 - i], "event_action", "N/A"),
                  ", Date: ", Get(events[Len(events) + 1 - i], "event_date", "N/A")>>]
     ELSE <<>>

EventLines(info) ==
  LET events == Get(info, "events", <<>>)
  IN IF ListTruthy(events)
     THEN << <<"\nEvent History:">> >>
          \o [i \in 1..Len(events) |->
                <<"Event: ", Get(events[i], "event_action", "N/A"),
                  ", Date: ", Get(events[i], "event_date", "N/A")>>]
     ELSE <<>>

Init ==
  /\ pc = "resolve"
  /\ callNo = 0
  /\ user_input \in SampleInputs
  /\ dns \in DnsReplies(user_input)
  /\ ip_address = Unbound
  /\ is_domain = "unbound"
  /\ raised = NoExc
  /\ out = <<>>
  /\ dnsLog = <<>>
  /\ registry = NoReply
  /\ rdapLog = <<>>
  /\ asn_info = NoInfo

\* ip_address, is_domain = get_ip_from_input(user_input)
MainResolve ==
  /\ pc = "resolve"
  /\ LET r == get_ip_from_input(user_input, dns)
     IN /\ ip_address' = r.ip
        /\ is_domain' = r.dom
        /\ raised' = r.raised
        /\ out' = out \o r.out
        /\ dnsLog' = dnsLog \o r.dnsLog
        /\ pc' = IF r.raised = NoExc THEN "branch" ELSE "crashed"
  /\ UNCHANGED <<callNo, user_input, dns, registry, rdapLog, asn_info>>

\* if ip_address: ... asn_info = asn_lookup(ip_address)
MainLookup ==
  /\ pc = "branch"
  /\ StrTruthy(ip_address)
  /\ \E reply \in RegistryReplies :
       LET a == asn_lookup(ip_address, reply)
       IN /\ registry' = reply
          /\ asn_info' = a.ret
          /\ raised' = a.raised
          /\ out' = out
                    \o (IF is_domain = "True"
                        THEN ResolvedLines(user_input, ip_address) ELSE <<>>)
                    \o a.out
          /\ rdapLog' = rdapLog \o a.rdapLog
          /\ pc' = IF a.raised = NoExc THEN "render" ELSE "crashed"
  /\ UNCHANGED <<callNo, user_input, dns, ip_address, is_domain, dnsLog>>

\* else: print("Could not perform ASN lookup due to invalid input.")
MainInvalid ==
  /\ pc = "branch"
  /\ ~StrTruthy(ip_address)
  /\ out' = Append(out, <<"Could not perform ASN lookup due to invalid input.">>)
  /\ pc' = "done"
  /\ UNCHANGED <<callNo, user_input, dns, ip_address, is_domain, raised,
                 dnsLog, registry, rdapLog, asn_info>>

\* if asn_info: the report
MainRender ==
  /\ pc = "render"
  /\ out' = IF DictTruthy(asn_info)
            THEN out \o AsnLines(asn_info, ip_address)
                     \o NetworkLines(asn_info) \o EventLines(asn_info)
            ELSE out
  /\ pc' = "done"
  /\ UNCHANGED <<callNo, user_input, dns, ip_address, is_domain, raised,
                 dnsLog, registry, rdapLog, asn_info>>

Next == MainResolve \/ MainLookup \/ MainInvalid \/ MainRender

Spec == Init /\ [][Next]_vars

\* ===================================================================
\* Properties
\* ===================================================================

\* The labels of s, split at the dots.
RECURSIVE Labels(_, _)
Labels(s, i) ==
  LET j == LabelEnd(s, i)
  IN IF j > Len(s) THEN <<SubSeq(s, i, Len(s))>>
     ELSE <<SubSeq(s, i, j - 1)>> \o Labels(s, j + 1)

IsByteText(l) ==
  /\ Len(l) \in 1..3
  /\ \A i \in 1..Len(l) : IsDigit(l[i])
  /\ DecVal(l, 1, Len(l) + 1) <= 255

\* s is an IPv4 dotted-quad literal: four decimal bytes, three dots.
IsDottedQuad(s) ==
  LET ls == Labels(s, 1)
  IN Len(ls) = 4 /\ \A i \in 1..4 : IsByteText(ls[i])

\* The call returned a valid result.
Valid == raised = NoExc /\ ip_address # None /\ ip_address # Unbound

\* The call returned the invalid result (None, None).
Invalid == raised = NoExc /\ ip_address = None /\ is_domain = "None"

\* C1: for a dotted-quad literal every call of get_ip_from_input returns
\* the literal itself with the hostname flag false, without a DNS call,
\* whatever calls came before.
C1_LiteralReturnedAsIs ==
  (callNo >= 1 /\ IsDottedQuad(user_input)) =>
    /\ raised = NoExc
    /\ ip_address = user_input
    /\ is_domain = "False"
    /\ dnsLog = <<>>

C1_Witness ==
  callNo = 2 /\ IsDottedQuad(user_input) /\ ip_address = user_input

\* C2: for an input that is not parsed as a literal and that DNS resolves
\* to an address, the call returns that address with the hostname flag
\* true; the flag is true on that path only.
C2_ResolvedHostname ==
  callNo >= 1 =>
    /\ (inet_aton(user_input) # NoExc /\ dns.kind = "addr") =>
         /\ raised = NoExc
         /\ ip_address = dns.addr
         /\ is_domain = "True"
         /\ dnsLog # <<>>
         /\ \A i \in 1..Len(dnsLog) : dnsLog[i] = user_input
    /\ is_domain = "True" =>
         /\ inet_aton(user_input) # NoExc
         /\ dns.kind = "addr"
         /\ dnsLog # <<>>

C2_Witness ==
  /\ callNo >= 1
  /\ inet_aton(user_input) # NoExc
  /\ dns.kind = "addr"
  /\ ip_address = dns.addr
  /\ ip_address # user_input
  /\ is_domain = "True"

\* C3: an input that is neither a dotted-quad literal nor a name DNS
\* resolves yields the invalid result, with no address.
C3_NeitherIsInvalid ==
  (callNo >= 1 /\ ~IsDottedQuad(user_input) /\ dns.kind # "addr") => Invalid

\* C4: no fault leaves get_ip_from_input; a failed resolution is returned
\* as the invalid result.
C4_NoFaultPropagates ==
  callNo >= 1 =>
    /\ raised = NoExc
    /\ (inet_aton(user_input) # NoExc /\ dns.kind # "addr") => Invalid

IsEventLine(l) == l[1] = "Event: "

IsNetworkLine(l) ==
  l[1] \in { "\nNetwork Details:", "Network Name: ", "Network Start IP: ",
             "Network End IP: ", "Network Country: ", "Network Type: ",
             "Network Description: " }

IsAsnLine(l) ==
  l[1] \in { "ASN Information for ", "ASN: ", "ASN CIDR: ",
             "ASN Country Code: ", "ASN Registry: ", "ASN Description: ",
             "ASN Allocation Date: " }

LastLine == out[Len(out)]

LookupFailed == rdapLog # <<>> /\ registry.kind = "raise"

ReservedRaised == LookupFailed /\ registry.exc = "IPDefinedError"

\* C5 as stated: the value asn_lookup returns for the reserved-address
\* condition differs from the value it returns for any other failure.
C5_ReservedDistinguishable ==
  ReservedRaised =>
    \A r \in RegistryReplies :
      (r.kind = "raise" /\ ~IsInstance(r.exc, "IPDefinedError")) =>
        asn_lookup(ip_address, r).ret # asn_info

\* C5 amended: on the reserved-address condition asn_lookup prints
\* "Error: <message>" and returns None; no exception leaves it.
C5_ReservedPrintedNoneReturned ==
  ReservedRaised =>
    /\ raised = NoExc
    /\ asn_info = NoneInfo
    /\ Len(LastLine) = 2
    /\ LastLine[1] = "Error: "
    /\ LastLine[2] = registry.msg

C5_Witness ==
  ReservedRaised /\ pc = "done" /\ asn_info = NoneInfo /\ LastLine[1] = "Error: "

\* C6: any other exception of the collaborator is caught in asn_lookup and
\* becomes the failure outcome carrying the collaborator's text; none
\* leaves asn_lookup.
C6_OtherFailuresCaught ==
  (LookupFailed /\ registry.exc # "IPDefinedError") =>
    /\ raised = NoExc
    /\ pc # "crashed"
    /\ asn_info = NoneInfo
    /\ Len(LastLine) = 2
    /\ LastLine[1] = "ASN lookup failed: "
    /\ LastLine[2] = registry.msg

C6_Witness ==
  /\ LookupFailed
  /\ registry.exc = "HTTPLookupError"
  /\ pc = "done"
  /\ LastLine[1] = "ASN lookup failed: "

ExpectedEventLines(l) ==
  [i \in 1..Len(l) |->
     <<"Event: ", Get(l[i], "event_action", "N/A"),
       ", Date: ", Get(l[i], "event_date", "N/A")>>]

\* C7: after a successful lookup the events returned and printed are the
\* collaborator's list, same order and length; no list, no event printed.
C7_EventsInSourceOrder ==
  (pc = "done" /\ registry.kind = "ok") =>
    LET l == Get(registry.res, "events", <<>>)
    IN /\ Get(asn_info, "events", <<>>) = l
       /\ SelectSeq(out, IsEventLine) = ExpectedEventLines(l)

C7_Witness ==
  /\ pc = "done"
  /\ registry.kind = "ok"
  /\ Get(registry.res, "events", <<>>)
       = << [event_action |-> "last changed", event_date |-> "2020-01-01"],
            [event_action |-> "registration", event_date |-> "2015-05-05"] >>
  /\ Len(SelectSeq(out, IsEventLine)) = 2

NetLabel ==
  [ name          |-> "Network Name: ",
    start_address |-> "Network Start IP: ",
    end_address   |-> "Network End IP: ",
    country       |-> "Network Country: ",
    type          |-> "Network Type: ",
    description   |-> "Network Description: " ]

\* The script printed the network subfield k with value v.
NetFieldPrinted(k, v) ==
  \E i \in 1..Len(out) :
    out[i][1] = NetLabel[k] /\ Len(out[i]) = 2 /\ out[i][2] = v

SuccessReported ==
  \E i \in 1..Len(out) : out[i][1] = "ASN Information for "

\* C8 as stated: with no network sub-record the lookup still succeeds and
\* every network subfield comes out as the sentinel.
C8_AbsentNetworkAllSentinel ==
  (pc = "done" /\ registry.kind = "ok"
     /\ "network" \notin DOMAIN registry.res) =>
    /\ SuccessReported
    /\ \A k \in NetKeys : NetFieldPrinted(k, "N/A")

\* C8 amended: with no network sub-record, or an empty one, the lookup
\* still succeeds and no network subfield is produced at all; with a
\* non-empty one every subfield is printed, a missing one as "N/A".
C8_NetworkSectionOrNothing ==
  (pc = "done" /\ registry.kind = "ok") =>
    LET n == Get(registry.res, "network", EmptyDict)
    IN /\ SuccessReported
       /\ IF DOMAIN n = {}
          THEN SelectSeq(out, IsNetworkLine) = <<>>
          ELSE /\ Len(SelectSeq(out, IsNetworkLine)) = 7
               /\ \A k \in NetKeys :
                    NetFieldPrinted(k, IF k \in DOMAIN n THEN n[k] ELSE "N/A")

C8_Witness ==
  /\ pc = "done"
  /\ registry.kind = "ok"
  /\ "network" \notin DOMAIN registry.res
  /\ SuccessReported
  /\ SelectSeq(out, IsNetworkLine) = <<>>

\* C9: one run calls the DNS collaborator at most once and the registry
\* collaborator at most once, on every path.
C9_NoRetry == Len(dnsLog) <= 1 /\ Len(rdapLog) <= 1

C9_Witness ==
  /\ pc = "done"
  /\ Len(dnsLog) = 1
  /\ Len(rdapLog) = 1
  /\ registry.kind = "raise"

\* C10: the registry is queried only after the resolver returned a valid
\* result, and for that address; after an invalid result it is never
\* queried and no ASN information is printed.
C10_LookupOnlyAfterValid ==
  /\ pc = "resolve" => rdapLog = <<>>
  /\ rdapLog # <<>> => (Valid /\ rdapLog = <<ip_address>>)
  /\ (pc \in {"branch", "done", "crashed"} /\ ~Valid) =>
       /\ rdapLog = <<>>
       /\ SelectSeq(out, IsAsnLine) = <<>>

C10_Witness ==
  /\ pc = "done"
  /\ is_domain = "True"
  /\ ip_address = dns.addr
  /\ ip_address # user_input
  /\ rdapLog = <<ip_address>>
  /\ registry.kind = "ok"

====
